---- MODULE Spec2Model ----
(***************************************************************************)
(* MarketPlay: the fixed-price listing registry (FixedPriceMarketplace)    *)
(* and the grouped settlement (AtomicTransactionManager), run against a    *)
(* model of the ledger client they call (algod: account queries, opt-in,   *)
(* grouped submission, confirmation).                                      *)
(*                                                                         *)
(* Every async method is cut at its awaits: the code between two awaits    *)
(* is one action, and calls of different callers interleave at the awaits. *)
(***************************************************************************)
EXTENDS Integers, Sequences, FiniteSets, Bags, TLC

VARIABLES
    listings,   \* FixedPriceMarketplace.listings : Map<string, Listing>
    clock,      \* the value Date.now() returns
    balances,   \* ledger: microAlgo balance of every address
    holdings,   \* ledger: asset holding of every address (<<>> = not opted in)
    groups,     \* ledger: every submission accepted by sendRawTransaction
    calls,      \* the calls suspended at an await: a bag of call records
    ncalls,     \* the number of calls made so far
    last,       \* the call that returned last, with its result
    receipts    \* <<listing id, transaction id>> of every buyAsset that returned a receipt

vars == <<listings, clock, balances, holdings, groups, calls, ncalls, last, receipts>>

----------------------------------------------------------------------------
(* Bounds *)

MaxCalls == 3        \* calls made during one run
MaxClock == 1        \* Date.now() takes the values 0..MaxClock
MaxInFlight == 2     \* calls suspended at an await at the same time
MaxSettleCalls == 2  \* direct calls of the settlement operations during one run
MaxCostCalls == 2    \* calls made on a registry that starts with one listing

(* Program constants *)

ALGORAND_MIN_TX_FEE == 1000

----------------------------------------------------------------------------
(* Values *)

Undefined == <<>>                    \* an absent optional parameter or field
Some(v) == <<v>>

Accounts == {"S", "B"}               \* algosdk.Account: addr with its sk
ValidAddrs == {"S", "B", "R"}        \* addresses algosdk.isValidAddress accepts
Assets == {42}

Prices == {0, 2000}
\* <<royaltyRecipient, royaltyPercentage>> as callers pass them
Royalties == { <<Undefined, Undefined>>, <<Some("R"), Some(50)>>,
               <<Some("R"), Undefined>>, <<Some("bad"), Some(50)>>,
               <<Some("R"), Some(110)>>, <<Some("R"), Some(-5)>> }

\* JavaScript truthiness of an optional number / optional string
TruthyNum(x) == x # Undefined /\ x[1] # 0
TruthyStr(x) == x # Undefined /\ x[1] # ""

isValidAddress(a) == a \in ValidAddrs

\* Math.floor(a / b) for b > 0
Floor(a, b) == a \div b

\* `listing_${assetId}_${Date.now()}`
ListingId(assetId, now) == <<assetId, now>>

NoListing == [id |-> <<>>, assetId |-> 0, seller |-> "", price |-> 0,
              royaltyRecipient |-> Undefined, royaltyPercentage |-> Undefined,
              createdAt |-> 0, status |-> ""]

NoArgs == [buyer |-> "", seller |-> "", assetId |-> 0, assetAmount |-> 0,
           price |-> 0, royaltyRecipient |-> Undefined, royaltyAmount |-> Undefined,
           stxns |-> <<>>]

Ok(v) == [kind |-> "ok", val |-> v, err |-> <<>>]
Err(m) == [kind |-> "err", val |-> <<>>, err |-> m]
NoRes == [kind |-> "", val |-> <<>>, err |-> <<>>]

\* catch (error) { throw new Error(`<prefix>: ${error.message}`) }
Wrap(prefix, m) == <<prefix>> \o m

\* One call of a public method: op is the method, pc the await it is
\* suspended at, listing the Listing object it holds, args the parameters
\* of the settlement it runs, txId the submission it waits for.  extCalls
\* counts the requests the call has made to the ledger client.
IdleCall == [op |-> "", pc |-> "idle", id |-> <<>>, caller |-> "",
             listing |-> NoListing, args |-> NoArgs, txId |-> 0,
             extCalls |-> 0, res |-> NoRes]

\* A call that has returned: its method, caller, the listing id it was
\* about, the number of ledger requests it made and its result.
Returned(call, r) == [IdleCall EXCEPT !.op = call.op, !.pc = "done",
                                      !.caller = call.caller,
                                      !.id = call.id, !.txId = call.txId,
                                      !.extCalls = call.extCalls, !.res = r]

----------------------------------------------------------------------------
(* The ledger client (algod) *)

PAY == "pay"
AXFER == "axfer"

\* algosdk.makePaymentTxnWithSuggestedParamsFromObject
makePaymentTxn(from, to, amount) ==
    [type |-> PAY, from |-> from, to |-> to, asset |-> 0, amount |-> amount,
     group |-> Undefined, signer |-> ""]

\* algosdk.makeAssetTransferTxnWithSuggestedParamsFromObject
makeAssetTransferTxn(from, to, assetIndex, amount) ==
    [type |-> AXFER, from |-> from, to |-> to, asset |-> assetIndex,
     amount |-> amount, group |-> Undefined, signer |-> ""]

\* The group id is a hash of the transactions of the group, in order: it is
\* modelled by what it is a hash of.
computeGroupID(txns) == Some([i \in 1..Len(txns) |-> [txns[i] EXCEPT !.signer = ""]])

\* algosdk.assignGroupID(txns): every transaction gets the id of the group
assignGroupID(txns) ==
    [i \in 1..Len(txns) |-> [txns[i] EXCEPT !.group = computeGroupID(txns)]]

\* txn.signTxn(account.sk)
signTxn(txn, account) == [txn EXCEPT !.signer = account]

Ungrouped(txns) == [i \in 1..Len(txns) |-> [txns[i] EXCEPT !.group = Undefined, !.signer = ""]]

\* A submission is well formed when every transaction is signed by its
\* sender and, for more than one transaction, all carry the id of exactly
\* this group.
WellFormed(stxns) ==
    /\ Len(stxns) > 0
    /\ \A i \in 1..Len(stxns) : stxns[i].signer = stxns[i].from /\ stxns[i].amount >= 0
    /\ Len(stxns) > 1 =>
          \A i \in 1..Len(stxns) : stxns[i].group = computeGroupID(Ungrouped(stxns))

\* The ledger state a transaction is evaluated in
Ledger(bal, hold) == [bal |-> bal, hold |-> hold]

TxnOk(st, t) ==
    IF t.type = PAY
    THEN st.bal[t.from] >= t.amount + ALGORAND_MIN_TX_FEE
    ELSE /\ st.bal[t.from] >= ALGORAND_MIN_TX_FEE
         /\ st.hold[t.from][t.asset] # Undefined
         /\ st.hold[t.from][t.asset][1] >= t.amount
         /\ st.hold[t.to][t.asset] # Undefined

TxnApply(st, t) ==
    IF t.type = PAY
    THEN LET b1 == [st.bal EXCEPT ![t.from] = @ - t.amount - ALGORAND_MIN_TX_FEE]
         IN  Ledger([b1 EXCEPT ![t.to] = @ + t.amount], st.hold)
    ELSE LET h1 == [st.hold EXCEPT ![t.from][t.asset] = Some(@[1] - t.amount)]
         IN  Ledger([st.bal EXCEPT ![t.from] = @ - ALGORAND_MIN_TX_FEE],
                    [h1 EXCEPT ![t.to][t.asset] = Some(@[1] + t.amount)])

\* The transactions of a group are evaluated in order; the group takes
\* effect as a whole or not at all.
RECURSIVE GroupEval(_, _, _)
GroupEval(st, stxns, i) ==
    IF i > Len(stxns) THEN [ok |-> TRUE, st |-> st]
    ELSE IF ~TxnOk(st, stxns[i]) THEN [ok |-> FALSE, st |-> st]
    ELSE GroupEval(TxnApply(st, stxns[i]), stxns, i + 1)

GroupResult(bal, hold, stxns) ==
    IF WellFormed(stxns) THEN GroupEval(Ledger(bal, hold), stxns, 1)
    ELSE [ok |-> FALSE, st |-> Ledger(bal, hold)]

----------------------------------------------------------------------------
(* Calls *)

\* A call can be made; a call can be suspended at its first await.
CanCall == ncalls < MaxCalls
CanSuspend == BagCardinality(calls) < MaxInFlight

NewCall(op, caller) == [IdleCall EXCEPT !.op = op, !.caller = caller]

\* A new call throws before its first await.
Throw(call, e) ==
    /\ calls' = calls
    /\ last' = Returned(call, Err(e))

\* A new call is suspended at its first await.
Enter(call) ==
    /\ CanSuspend
    /\ calls' = calls (+) SetToBag({call})
    /\ UNCHANGED last

\* The suspended call c returns r to its caller; call is c as it returns.
Return(c, call, r) ==
    /\ calls' = calls (-) SetToBag({c})
    /\ last' = Returned(call, r)

\* The suspended call c goes on to its next await as call.
Suspend(c, call) ==
    /\ calls' = (calls (-) SetToBag({c})) (+) SetToBag({call})
    /\ UNCHANGED last

\* The suspended call c is a call of op waiting at pc.
At(c, op, pc) == BagIn(c, calls) /\ c.op = op /\ c.pc = pc

NetworkError == <<"network error">>
Rejected == <<"transaction rejected">>

----------------------------------------------------------------------------
(* FixedPriceMarketplace.listAsset *)

\* listAsset without its check of the price
ListAssetValidateNoPrice(price, royaltyRecipient, royaltyPercentage) ==
    IF TruthyNum(royaltyPercentage)
       /\ (royaltyPercentage[1] < 0 \/ royaltyPercentage[1] > 100)
    THEN <<"Royalty percentage must be 0-100">>
    ELSE IF TruthyStr(royaltyRecipient) /\ ~isValidAddress(royaltyRecipient[1])
         THEN <<"Invalid royalty recipient">>
    ELSE <<>>

\* listAsset checking only the upper end of the percentage range
ListAssetValidateNoLower(price, royaltyRecipient, royaltyPercentage) ==
    IF price <= 0 THEN <<"Price must be positive">>
    ELSE IF TruthyNum(royaltyPercentage) /\ royaltyPercentage[1] > 100
         THEN <<"Royalty percentage must be 0-100">>
    ELSE IF TruthyStr(royaltyRecipient) /\ ~isValidAddress(royaltyRecipient[1])
         THEN <<"Invalid royalty recipient">>
    ELSE <<>>

\* The input validation of listAsset: the message of the error thrown, or
\* <<>> when the inputs pass.
ListAssetValidate(price, royaltyRecipient, royaltyPercentage) ==
    IF price <= 0 THEN <<"Price must be positive">>
    ELSE IF TruthyNum(royaltyPercentage)
            /\ (royaltyPercentage[1] < 0 \/ royaltyPercentage[1] > 100)
         THEN <<"Royalty percentage must be 0-100">>
    ELSE IF TruthyStr(royaltyRecipient) /\ ~isValidAddress(royaltyRecipient[1])
         THEN <<"Invalid royalty recipient">>
    ELSE <<>>

\* if (!holding), without the test of the amount
SellerOwnsAnyHolding(holding) == ~(holding = Undefined)

\* if (!holding || holding.amount === 0)
SellerOwns(holding) == ~(holding = Undefined \/ holding[1] = 0)

\* listings.set(id, listing): Map.set adds the key or replaces its value
MapSet(map, id, listing) == (id :> listing) @@ map

\* The call of listAsset up to its await of getAssetHolding
ListAssetCall(seller, assetId, price, royaltyRecipient, royaltyPercentage) ==
    /\ CanCall
    /\ ncalls' = ncalls + 1
    /\ LET e == ListAssetValidate(price, royaltyRecipient, royaltyPercentage)
           call == NewCall("listAsset", seller)
       IN  IF e # <<>> THEN Throw(call, e)
           ELSE Enter([call EXCEPT !.pc = "getAssetHolding", !.extCalls = 1,
                     !.listing = [NoListing EXCEPT
                        !.assetId = assetId, !.seller = seller, !.price = price,
                        !.royaltyRecipient = royaltyRecipient,
                        !.royaltyPercentage = royaltyPercentage]])
    /\ UNCHANGED <<listings, clock, balances, holdings, groups, receipts>>

\* getAssetHolding fails: the error reaches the caller of listAsset
ListAssetQueryFails(c) ==
    /\ At(c, "listAsset", "getAssetHolding")
    /\ Return(c, c, Err(Wrap("Failed to get asset holdings", NetworkError)))
    /\ UNCHANGED <<listings, clock, balances, holdings, groups, ncalls, receipts>>

\* The Listing that listAsset makes of its parameters.  The clock is read
\* for the id and again for createdAt, within the same synchronous block:
\* both readings are taken at the same instant.
NewListing(l, now) ==
    [l EXCEPT !.id = ListingId(l.assetId, now), !.createdAt = now,
              !.status = "active"]

\* getAssetHolding answers: the ownership check, then the listing is stored
\* under its id.
ListAssetStore(c) ==
    /\ At(c, "listAsset", "getAssetHolding")
    /\ LET l == c.listing
           holding == holdings[l.seller][l.assetId]
           listing == NewListing(l, clock)
       IN  IF ~SellerOwns(holding)
           THEN /\ Return(c, c, Err(<<"Seller does not own asset">>))
                /\ UNCHANGED listings
           ELSE /\ listings' = MapSet(listings, listing.id, listing)
                /\ Return(c, [c EXCEPT !.id = listing.id], Ok(listing.id))
    /\ UNCHANGED <<clock, balances, holdings, groups, ncalls, receipts>>

\* Time passes.
Tick ==
    /\ clock < MaxClock
    /\ clock' = clock + 1
    /\ UNCHANGED <<listings, balances, holdings, groups, calls, ncalls, last, receipts>>

----------------------------------------------------------------------------
(* FixedPriceMarketplace.cancelListing *)

\* cancelListing without its check of the status
CancelCheckNoState(map, seller, listingId) ==
    IF listingId \notin DOMAIN map THEN <<"Listing not found">>
    ELSE IF map[listingId].seller # seller THEN <<"Only seller can cancel listing">>
    ELSE <<>>

CancelCheck(map, seller, listingId) ==
    IF listingId \notin DOMAIN map THEN <<"Listing not found">>
    ELSE IF map[listingId].seller # seller THEN <<"Only seller can cancel listing">>
    ELSE IF map[listingId].status # "active" THEN <<"Listing is not active">>
    ELSE <<>>

\* listing.status = 'cancelled'; this.listings.set(listingId, listing)
MarkCancelled(map, listingId) ==
    MapSet(map, listingId, [map[listingId] EXCEPT !.status = "cancelled"])

\* cancelListing without its check of the caller
CancelListingByAnyone(seller, listingId) ==
    /\ CanCall
    /\ ncalls' = ncalls + 1
    /\ LET e == IF listingId \notin DOMAIN listings THEN <<"Listing not found">>
                ELSE IF listings[listingId].status # "active"
                     THEN <<"Listing is not active">>
                ELSE <<>>
           call == [NewCall("cancelListing", seller) EXCEPT !.id = listingId]
       IN  IF e # <<>>
           THEN /\ Throw(call, e)
                /\ UNCHANGED listings
           ELSE /\ listings' = MarkCancelled(listings, listingId)
                /\ calls' = calls
                /\ last' = Returned(call, Ok(<<>>))
    /\ UNCHANGED <<clock, balances, holdings, groups, receipts>>

\* cancelListing has no await: the whole call is one step.
CancelListing(seller, listingId) ==
    /\ CanCall
    /\ ncalls' = ncalls + 1
    /\ LET e == CancelCheck(listings, seller, listingId)
           call == [NewCall("cancelListing", seller) EXCEPT !.id = listingId]
       IN  IF e # <<>>
           THEN /\ Throw(call, e)
                /\ UNCHANGED listings
           ELSE /\ listings' = MarkCancelled(listings, listingId)
                /\ calls' = calls
                /\ last' = Returned(call, Ok(<<>>))
    /\ UNCHANGED <<clock, balances, holdings, groups, receipts>>

----------------------------------------------------------------------------
(* AtomicTransactionManager.marketplacePurchase and atomicSwap *)

\* The royalty leg built whenever a recipient is given
RoyaltyLegAnyAmount(args) ==
    /\ TruthyStr(args.royaltyRecipient)
    /\ args.royaltyAmount # Undefined

\* if (royaltyRecipient && royaltyAmount && royaltyAmount > 0)
RoyaltyLeg(args) ==
    /\ TruthyStr(args.royaltyRecipient)
    /\ TruthyNum(args.royaltyAmount)
    /\ args.royaltyAmount[1] > 0

\* The transactions marketplacePurchase builds, in the order it pushes them
MpTransactions(args) ==
    LET legs == << makePaymentTxn(args.buyer, args.seller, args.price),
                   makeAssetTransferTxn(args.seller, args.buyer, args.assetId, 1) >>
    IN  IF RoyaltyLeg(args)
        THEN Append(legs, makePaymentTxn(args.buyer, args.royaltyRecipient[1],
                                         args.royaltyAmount[1]))
        ELSE legs

\* The error marketplacePurchase throws while it builds the transactions
MpValidate(args) ==
    IF RoyaltyLeg(args) /\ ~isValidAddress(args.royaltyRecipient[1])
    THEN <<"Invalid royalty recipient">>
    ELSE <<>>

\* Every leg signed with the buyer's key
MpSignAllByBuyer(txns, args) ==
    [i \in 1..Len(txns) |-> signTxn(txns[i], args.buyer)]

\* signedTxns: payment by the buyer, asset transfer by the seller, royalty
\* by the buyer
MpSign(txns, args) ==
    [i \in 1..Len(txns) |->
        signTxn(txns[i], IF i = 2 THEN args.seller ELSE args.buyer)]

\* The legs sent one by one, each as a submission of its own, as the
\* payment-then-transfer variant of buyAsset does
MpSubmissionsSeparately(args) ==
    [i \in 1..Len(MpTransactions(args)) |->
        << MpSign(MpTransactions(args), args)[i] >>]

\* What marketplacePurchase hands to sendRawTransaction: one submission
\* holding every signed transaction of the group
MpSubmissions(args) ==
    << MpSign(assignGroupID(MpTransactions(args)), args) >>

\* The error atomicSwap throws before it asks for the suggested parameters
SwapValidate(args) ==
    IF args.price <= 0 THEN <<"Payment amount must be positive">>
    ELSE IF args.assetAmount <= 0 THEN <<"Asset amount must be positive">>
    ELSE <<>>

SwapTransactions(args) ==
    << makePaymentTxn(args.buyer, args.seller, args.price),
       makeAssetTransferTxn(args.seller, args.buyer, args.assetId, args.assetAmount) >>

\* What atomicSwap hands to sendRawTransaction
SwapSubmissions(args) ==
    LET txns == assignGroupID(SwapTransactions(args))
    IN  << << signTxn(txns[1], args.buyer), signTxn(txns[2], args.seller) >> >>

Settling(c) ==
    /\ BagIn(c, calls)
    /\ c.op \in {"buyAsset", "marketplacePurchase", "atomicSwap", "executeAtomicGroup"}

ErrorPrefix(op) ==
    IF op = "atomicSwap" THEN "Atomic swap failed"
    ELSE IF op = "executeAtomicGroup" THEN "Atomic group execution failed"
    ELSE "Marketplace purchase failed"

BuildError(call) ==
    IF call.op = "atomicSwap" THEN <<>> ELSE MpValidate(call.args)

Submissions(call) ==
    IF call.op = "atomicSwap" THEN SwapSubmissions(call.args)
    ELSE MpSubmissions(call.args)

RECURSIVE SumLen(_)
SumLen(subs) == IF subs = <<>> THEN 0 ELSE Len(Head(subs)) + SumLen(Tail(subs))

\* getTransactionParams fails
SettleParamsFail(c) ==
    /\ Settling(c) /\ c.pc = "getTransactionParams"
    /\ Return(c, c, Err(Wrap(ErrorPrefix(c.op), NetworkError)))
    /\ UNCHANGED <<listings, clock, balances, holdings, groups, ncalls, receipts>>

\* sendRawTransaction fails before the ledger has seen the submission
SettleSendFails(c) ==
    /\ Settling(c) /\ c.pc = "getTransactionParams"
    /\ BuildError(c) = <<>>
    /\ Return(c, [c EXCEPT !.extCalls = @ + 1],
              Err(Wrap(ErrorPrefix(c.op), NetworkError)))
    /\ UNCHANGED <<listings, clock, balances, holdings, groups, ncalls, receipts>>

\* getTransactionParams answers; the transactions are built (which may
\* throw), grouped, signed and handed to sendRawTransaction.  The ledger
\* takes a submission into its pool when it is well formed and would take
\* effect in the present ledger state, and rejects it otherwise.
SettleSubmit(c) ==
    /\ Settling(c) /\ c.pc = "getTransactionParams"
    /\ LET subs == Submissions(c)
           entries == [i \in 1..Len(subs) |->
                         [stxns |-> subs[i], status |-> "pending",
                          of |-> SumLen(subs),
                          id |-> c.id]]
           Admitted(e) == GroupResult(balances, holdings, e.stxns).ok
           taken == SelectSeq(entries, Admitted)
       IN  IF BuildError(c) # <<>>
           THEN /\ Return(c, c,
                          Err(Wrap(ErrorPrefix(c.op), BuildError(c))))
                /\ UNCHANGED groups
           ELSE /\ Len(groups) + Len(taken) <= MaxCalls
                /\ groups' = groups \o taken
                /\ IF Len(taken) = Len(entries)
                   THEN Suspend(c, [c EXCEPT !.pc = "waitForConfirmation",
                                      !.txId = Len(groups) + 1, !.extCalls = @ + 2])
                   ELSE Return(c, [c EXCEPT !.extCalls = @ + 1],
                               Err(Wrap(ErrorPrefix(c.op), Rejected)))
    /\ UNCHANGED <<listings, clock, balances, holdings, ncalls, receipts>>

\* The ledger decides a pending submission: it takes effect as a whole, or
\* it is dropped from the pool.
LedgerCommit(t) ==
    /\ t \in 1..Len(groups)
    /\ groups[t].status = "pending"
    /\ LET r == GroupResult(balances, holdings, groups[t].stxns)
       IN  /\ groups' = [groups EXCEPT ![t].status =
                            IF r.ok THEN "committed" ELSE "dropped"]
           /\ balances' = r.st.bal
           /\ holdings' = r.st.hold
    /\ UNCHANGED <<listings, clock, calls, ncalls, last, receipts>>

\* The settlement built and submitted again when the wait gives up
SettleTimeoutRetries(c) ==
    /\ Settling(c) /\ c.pc = "waitForConfirmation"
    /\ groups[c.txId].status # "committed"
    /\ Suspend(c, [c EXCEPT !.pc = "getTransactionParams", !.extCalls = @ + 1])
    /\ UNCHANGED <<listings, clock, balances, holdings, groups, ncalls, receipts>>

\* waitForConfirmation gives up: the submission was not confirmed within
\* the rounds it waits for
SettleTimeout(c) ==
    /\ Settling(c) /\ c.pc = "waitForConfirmation"
    /\ groups[c.txId].status # "committed"
    /\ Return(c, c,
              Err(Wrap(ErrorPrefix(c.op), <<"Transaction not confirmed">>)))
    /\ UNCHANGED <<listings, clock, balances, holdings, groups, ncalls, receipts>>

\* buyAsset after marketplacePurchase has returned:
\* listing.status = 'sold'; this.listings.set(listingId, listing)
\* (listing is the object buyAsset took from the map when it was called; of
\* its fields only status is ever assigned)
MarkSold(map, listingId, listing) ==
    MapSet(map, listingId, [listing EXCEPT !.status = "sold"])

\* waitForConfirmation returns: the settlement returns the transaction id,
\* and buyAsset marks the listing it holds as sold and returns the id too.
SettleConfirmed(c) ==
    /\ Settling(c) /\ c.pc = "waitForConfirmation"
    /\ groups[c.txId].status = "committed"
    /\ Return(c, c, Ok(<<c.txId>>))
    /\ IF c.op = "buyAsset"
       THEN /\ listings' = MarkSold(listings, c.id, c.listing)
            /\ receipts' = receipts \cup {<<c.id, c.txId>>}
       ELSE UNCHANGED <<listings, receipts>>
    /\ UNCHANGED <<clock, balances, holdings, groups, ncalls>>

\* A direct call of marketplacePurchase, up to its await of
\* getTransactionParams
MarketplacePurchaseCall(buyer, seller, assetId, price, royaltyRecipient, royaltyAmount) ==
    /\ CanCall
    /\ ncalls < MaxSettleCalls
    /\ ncalls' = ncalls + 1
    /\ Enter([NewCall("marketplacePurchase", buyer) EXCEPT
             !.pc = "getTransactionParams", !.extCalls = 1,
             !.args = [NoArgs EXCEPT !.buyer = buyer, !.seller = seller,
                         !.assetId = assetId, !.assetAmount = 1, !.price = price,
                         !.royaltyRecipient = royaltyRecipient,
                         !.royaltyAmount = royaltyAmount]])
    /\ UNCHANGED <<listings, clock, balances, holdings, groups, receipts>>

\* A direct call of atomicSwap, up to its await of getTransactionParams
AtomicSwapCall(buyer, seller, assetId, assetAmount, paymentAmount) ==
    /\ CanCall
    /\ ncalls < MaxSettleCalls
    /\ ncalls' = ncalls + 1
    /\ LET args == [NoArgs EXCEPT !.buyer = buyer, !.seller = seller,
                      !.assetId = assetId, !.assetAmount = assetAmount,
                      !.price = paymentAmount]
           call == NewCall("atomicSwap", buyer)
           e == SwapValidate(args)
       IN  IF e # <<>> THEN Throw(call, Wrap(ErrorPrefix("atomicSwap"), e))
           ELSE Enter([call EXCEPT !.pc = "getTransactionParams",
                                        !.extCalls = 1, !.args = args])
    /\ UNCHANGED <<listings, clock, balances, holdings, groups, receipts>>

----------------------------------------------------------------------------
(* FixedPriceMarketplace.buyAsset *)

\* buyAsset reporting an unknown id as a listing that is not active
BuyAssetCheckAsInactive(map, listingId, sellerAccount) ==
    IF listingId \notin DOMAIN map THEN <<"Listing is not active">>
    ELSE IF map[listingId].status # "active" THEN <<"Listing is not active">>
    ELSE IF sellerAccount # map[listingId].seller
         THEN <<"Seller account does not match listing">>
    ELSE <<>>

\* The checks buyAsset makes before its first await
BuyAssetCheck(map, listingId, sellerAccount) ==
    IF listingId \notin DOMAIN map THEN <<"Listing not found">>
    ELSE IF map[listingId].status # "active" THEN <<"Listing is not active">>
    ELSE IF sellerAccount # map[listingId].seller
         THEN <<"Seller account does not match listing">>
    ELSE <<>>

\* The royalty rounded up instead of down
RoyaltyAmountCeil(listing) ==
    IF TruthyStr(listing.royaltyRecipient) /\ TruthyNum(listing.royaltyPercentage)
    THEN (listing.price * listing.royaltyPercentage[1] + 99) \div 100
    ELSE 0

\* let royaltyAmount = 0; if (recipient && percentage) royaltyAmount = floor(...)
RoyaltyAmount(listing) ==
    IF TruthyStr(listing.royaltyRecipient) /\ TruthyNum(listing.royaltyPercentage)
    THEN Floor(listing.price * listing.royaltyPercentage[1], 100)
    ELSE 0

\* const totalCost = listing.price + royaltyAmount + ALGORAND_MIN_TX_FEE * 2
TotalCost(listing) ==
    listing.price + RoyaltyAmount(listing) + ALGORAND_MIN_TX_FEE * 2

\* PaymentManager.hasSufficientBalance(address, amount, false)
hasSufficientBalance(amount, required) == amount >= required

\* The call of buyAsset up to its await of accountInformation
BuyAssetCall(buyer, listingId, sellerAccount) ==
    /\ CanCall
    /\ ncalls' = ncalls + 1
    /\ LET e == BuyAssetCheck(listings, listingId, sellerAccount)
           call == [NewCall("buyAsset", buyer) EXCEPT !.id = listingId]
       IN  IF e # <<>> THEN Throw(call, e)
           ELSE Enter([call EXCEPT !.pc = "accountInformation", !.extCalls = 1,
                     !.listing = listings[listingId],
                     !.args = [NoArgs EXCEPT !.buyer = buyer, !.seller = sellerAccount]])
    /\ UNCHANGED <<listings, clock, balances, holdings, groups, receipts>>

\* A request of buyAsset to the ledger client fails: accountInformation,
\* the opt-in, or the balance query
BuyRequestFails(c) ==
    /\ BagIn(c, calls) /\ c.op = "buyAsset"
    /\ c.pc \in {"accountInformation", "optIn", "hasSufficientBalance"}
    /\ Return(c, c, Err(
          IF c.pc = "optIn" THEN Wrap("Opt-in failed", NetworkError)
          ELSE IF c.pc = "hasSufficientBalance"
               THEN Wrap("Balance check failed", NetworkError)
          ELSE NetworkError))
    /\ UNCHANGED <<listings, clock, balances, holdings, groups, ncalls, receipts>>

\* The buyer opting in whatever accountInformation answers
BuyOptInAlways(c) ==
    /\ At(c, "buyAsset", "accountInformation")
    /\ Suspend(c, [c EXCEPT !.pc = "optIn", !.extCalls = @ + 1])
    /\ UNCHANGED <<listings, clock, balances, holdings, groups, ncalls, receipts>>

\* accountInformation answers: the buyer opts in when it holds no entry for
\* the asset, and the balance query follows.
BuyOptInCheck(c) ==
    /\ At(c, "buyAsset", "accountInformation")
    /\ LET hasOptedIn ==
             holdings[c.args.buyer][c.listing.assetId] # Undefined
       IN  Suspend(c, [c EXCEPT
             !.pc = IF hasOptedIn THEN "hasSufficientBalance" ELSE "optIn",
             !.extCalls = @ + 1])
    /\ UNCHANGED <<listings, clock, balances, holdings, groups, ncalls, receipts>>

\* AssetManager.optIn: a transfer of 0 units of the asset from the account
\* to itself, confirmed before optIn returns
OptInOk(bal, account) == bal[account] >= ALGORAND_MIN_TX_FEE

OptInApply(bal, hold, account, assetId) ==
    Ledger([bal EXCEPT ![account] = @ - ALGORAND_MIN_TX_FEE],
           [hold EXCEPT ![account][assetId] = IF @ = Undefined THEN Some(0) ELSE @])

\* The opt-in answers: done, or rejected by the ledger
BuyOptIn(c) ==
    /\ At(c, "buyAsset", "optIn")
    /\ LET buyer == c.args.buyer
           assetId == c.listing.assetId
       IN  IF OptInOk(balances, buyer)
           THEN /\ balances' = OptInApply(balances, holdings, buyer, assetId).bal
                /\ holdings' = OptInApply(balances, holdings, buyer, assetId).hold
                /\ Suspend(c, [c EXCEPT !.pc = "hasSufficientBalance",
                                                !.extCalls = @ + 1])
           ELSE /\ Return(c, c, Err(Wrap("Opt-in failed", Rejected)))
                /\ UNCHANGED <<balances, holdings>>
    /\ UNCHANGED <<listings, clock, groups, ncalls, receipts>>

\* The arguments buyAsset passes to marketplacePurchase
PurchaseArgs(call) ==
    [NoArgs EXCEPT !.buyer = call.args.buyer, !.seller = call.args.seller,
                   !.assetId = call.listing.assetId, !.assetAmount = 1,
                   !.price = call.listing.price,
                   !.royaltyRecipient = call.listing.royaltyRecipient,
                   !.royaltyAmount = Some(RoyaltyAmount(call.listing))]

\* buyAsset marking the listing sold before it starts the settlement
BuyBalanceMarksSold(c) ==
    /\ At(c, "buyAsset", "hasSufficientBalance")
    /\ IF hasSufficientBalance(balances[c.args.buyer], TotalCost(c.listing))
       THEN /\ Suspend(c, [c EXCEPT !.pc = "getTransactionParams",
                             !.extCalls = @ + 1, !.args = PurchaseArgs(c)])
            /\ listings' = MarkSold(listings, c.id, c.listing)
       ELSE /\ Return(c, c, Err(<<"Insufficient balance">>))
            /\ UNCHANGED listings
    /\ UNCHANGED <<clock, balances, holdings, groups, ncalls, receipts>>

\* The balance query answers: too little fails the call, enough starts
\* marketplacePurchase, which asks for the suggested parameters.
BuyBalance(c) ==
    /\ At(c, "buyAsset", "hasSufficientBalance")
    /\ IF hasSufficientBalance(balances[c.args.buyer], TotalCost(c.listing))
       THEN Suspend(c, [c EXCEPT !.pc = "getTransactionParams",
                          !.extCalls = @ + 1, !.args = PurchaseArgs(c)])
       ELSE Return(c, c, Err(<<"Insufficient balance">>))
    /\ UNCHANGED <<listings, clock, balances, holdings, groups, ncalls, receipts>>

----------------------------------------------------------------------------
(* The marketplace under concurrent callers *)

Ids == {ListingId(a, t) : a \in Assets, t \in 0..MaxClock}

NoHoldings == [a \in Assets |-> Undefined]

Init ==
    /\ listings = <<>>
    /\ clock = 0
    /\ balances = [a \in ValidAddrs |-> IF a = "S" THEN 4500
                                         ELSE IF a = "B" THEN 20000 ELSE 0]
    /\ holdings = [a \in ValidAddrs |->
                     IF a = "S" THEN [x \in Assets |-> Some(2)] ELSE NoHoldings]
    /\ groups = <<>>
    /\ calls = EmptyBag
    /\ ncalls = 0
    /\ last = IdleCall
    /\ receipts = {}

ListAsset ==
    \E seller \in Accounts, assetId \in Assets, price \in Prices, r \in Royalties :
        ListAssetCall(seller, assetId, price, r[1], r[2])

BuyAsset ==
    \E buyer \in Accounts, id \in Ids, sellerAccount \in Accounts :
        BuyAssetCall(buyer, id, sellerAccount)

Cancel ==
    \E seller \in Accounts, id \in Ids : CancelListing(seller, id)

Next ==
    \/ Tick
    \/ \E t \in 1..MaxCalls : LedgerCommit(t)
    \/ ListAsset
    \/ Cancel
    \/ BuyAsset
    \/ \E c \in BagToSet(calls) :
        \/ ListAssetQueryFails(c)
        \/ ListAssetStore(c)
        \/ BuyRequestFails(c)
        \/ BuyOptInCheck(c)
        \/ BuyOptIn(c)
        \/ BuyBalance(c)
        \/ SettleParamsFail(c)
        \/ SettleSendFails(c)
        \/ SettleSubmit(c)
        \/ SettleTimeout(c)
        \/ SettleConfirmed(c)

Spec == Init /\ [][Next]_vars

TypeOK ==
    /\ clock \in 0..MaxClock
    /\ DOMAIN listings \subseteq Ids
    /\ Len(groups) <= MaxCalls
    /\ ncalls \in 0..MaxCalls

----------------------------------------------------------------------------
(* The settlement operations called directly *)

\* <<royaltyRecipient, royaltyAmount>> as callers of marketplacePurchase pass them
RoyaltyArgs == { <<Undefined, Undefined>>, <<Some("R"), Some(1000)>>,
                 <<Some("bad"), Some(1000)>>, <<Some("R"), Some(0)>>,
                 <<Undefined, Some(1000)>> }

AssetAmounts == {0, 1}

\* The buyer has opted into the asset before a direct settlement.
InitSettle ==
    /\ listings = <<>>
    /\ clock = 0
    /\ balances = [a \in ValidAddrs |-> IF a = "S" THEN 4500
                                         ELSE IF a = "B" THEN 20000 ELSE 0]
    /\ holdings = [a \in ValidAddrs |->
                     IF a = "S" THEN [x \in Assets |-> Some(2)]
                     ELSE IF a = "B" THEN [x \in Assets |-> Some(0)]
                     ELSE NoHoldings]
    /\ groups = <<>>
    /\ calls = EmptyBag
    /\ ncalls = 0
    /\ last = IdleCall
    /\ receipts = {}

\* <<buyer, seller>> of a direct settlement
Parties == { <<"B", "S">> }

MarketplacePurchase ==
    \E p \in Parties, assetId \in Assets, price \in Prices, r \in RoyaltyArgs :
        MarketplacePurchaseCall(p[1], p[2], assetId, price, r[1], r[2])

AtomicSwap ==
    \E p \in Parties, assetId \in Assets, assetAmount \in AssetAmounts,
       paymentAmount \in Prices :
        AtomicSwapCall(p[1], p[2], assetId, assetAmount, paymentAmount)

NextSettle ==
    \/ \E t \in 1..MaxCalls : LedgerCommit(t)
    \/ MarketplacePurchase
    \/ AtomicSwap
    \/ \E c \in BagToSet(calls) :
        \/ SettleParamsFail(c)
        \/ SettleSendFails(c)
        \/ SettleSubmit(c)
        \/ SettleTimeout(c)
        \/ SettleConfirmed(c)

SpecSettle == InitSettle /\ [][NextSettle]_vars

----------------------------------------------------------------------------
(* FixedPriceMarketplace.calculateTotalCost, and buyAsset on a registry that *)
(* holds one listing                                                         *)

\* calculateTotalCost(listingId): the message of the error thrown, or <<>>
CostCheck(map, listingId) ==
    IF listingId \notin DOMAIN map THEN <<"Listing not found">> ELSE <<>>

\* calculateTotalCost has no await: the whole call is one step.  It computes
\* the total as buyAsset does.
CalculateTotalCost(caller, listingId) ==
    /\ CanCall
    /\ ncalls' = ncalls + 1
    /\ LET e == CostCheck(listings, listingId)
           call == [NewCall("calculateTotalCost", caller) EXCEPT !.id = listingId]
       IN  /\ calls' = calls
           /\ last' = Returned(call, IF e # <<>> THEN Err(e)
                                     ELSE Ok(<<TotalCost(listings[listingId])>>))
    /\ UNCHANGED <<listings, clock, balances, holdings, groups, receipts>>

CostPrices == {1, 199, 5000000}
CostPercentages == {Undefined, Some(0), Some(5), Some(33), Some(100)}
CostRecipients == {Undefined, Some("R")}

\* The registry after one successful listAsset by S at time 0; the buyer
\* can afford every listing.
InitCost ==
    /\ \E price \in CostPrices, pct \in CostPercentages, rcp \in CostRecipients :
          listings = MapSet(<<>>, ListingId(42, 0),
                            NewListing([NoListing EXCEPT
                               !.assetId = 42, !.seller = "S", !.price = price,
                               !.royaltyRecipient = rcp,
                               !.royaltyPercentage = pct], 0))
    /\ clock = 0
    /\ balances = [a \in ValidAddrs |-> IF a = "S" THEN 4500
                                         ELSE IF a = "B" THEN 20000000 ELSE 0]
    /\ holdings = [a \in ValidAddrs |->
                     IF a = "S" THEN [x \in Assets |-> Some(2)] ELSE NoHoldings]
    /\ groups = <<>>
    /\ calls = EmptyBag
    /\ ncalls = 0
    /\ last = IdleCall
    /\ receipts = {}

TotalCostQuery ==
    \E caller \in Accounts, id \in Ids : CalculateTotalCost(caller, id)

NextCost ==
    \/ \E t \in 1..MaxCalls : LedgerCommit(t)
    \/ ncalls < MaxCostCalls /\ TotalCostQuery
    \/ ncalls < MaxCostCalls /\ BuyAsset
    \/ \E c \in BagToSet(calls) :
        \/ BuyRequestFails(c)
        \/ BuyOptInCheck(c)
        \/ BuyOptIn(c)
        \/ BuyBalance(c)
        \/ SettleParamsFail(c)
        \/ SettleSendFails(c)
        \/ SettleSubmit(c)
        \/ SettleTimeout(c)
        \/ SettleConfirmed(c)

SpecCost == InitCost /\ [][NextCost]_vars

----------------------------------------------------------------------------
(* AtomicTransactionManager.executeAtomicGroup *)

\* executeAtomicGroup accepting an empty list of transactions
ExecValidateNoEmpty(transactions, signers) ==
    IF Len(transactions) # Len(signers)
    THEN <<"Number of transactions must match number of signers">>
    ELSE <<>>

\* The checks executeAtomicGroup makes before it groups the transactions
ExecValidate(transactions, signers) ==
    IF Len(transactions) = 0 THEN <<"No transactions provided">>
    ELSE IF Len(transactions) # Len(signers)
         THEN <<"Number of transactions must match number of signers">>
    ELSE <<>>

\* assignGroupID(transactions); transactions.map((txn, i) => txn.signTxn(signers[i].sk))
ExecSign(transactions, signers) ==
    [i \in 1..Len(transactions) |->
        signTxn(assignGroupID(transactions)[i], signers[i])]

\* The call of executeAtomicGroup up to its await of sendRawTransaction
ExecuteAtomicGroupCall(caller, transactions, signers) ==
    /\ CanCall
    /\ ncalls < MaxSettleCalls
    /\ ncalls' = ncalls + 1
    /\ LET e == ExecValidate(transactions, signers)
           call == NewCall("executeAtomicGroup", caller)
       IN  IF e # <<>> THEN Throw(call, Wrap(ErrorPrefix("executeAtomicGroup"), e))
           ELSE Enter([call EXCEPT !.pc = "sendRawTransaction", !.extCalls = 1,
                        !.args = [NoArgs EXCEPT
                                     !.stxns = ExecSign(transactions, signers)]])
    /\ UNCHANGED <<listings, clock, balances, holdings, groups, receipts>>

\* sendRawTransaction fails before the ledger has seen the submission
GroupSendFails(c) ==
    /\ At(c, "executeAtomicGroup", "sendRawTransaction")
    /\ Return(c, c, Err(Wrap(ErrorPrefix(c.op), NetworkError)))
    /\ UNCHANGED <<listings, clock, balances, holdings, groups, ncalls, receipts>>

\* The ledger answers sendRawTransaction: it takes the submission into its
\* pool, or rejects it.
GroupSubmit(c) ==
    /\ At(c, "executeAtomicGroup", "sendRawTransaction")
    /\ IF GroupResult(balances, holdings, c.args.stxns).ok
       THEN /\ Len(groups) < MaxCalls
            /\ groups' = Append(groups, [stxns |-> c.args.stxns, status |-> "pending",
                                         of |-> Len(c.args.stxns), id |-> c.id])
            /\ Suspend(c, [c EXCEPT !.pc = "waitForConfirmation",
                                    !.txId = Len(groups) + 1, !.extCalls = @ + 1])
       ELSE /\ Return(c, c, Err(Wrap(ErrorPrefix(c.op), Rejected)))
            /\ UNCHANGED groups
    /\ UNCHANGED <<listings, clock, balances, holdings, ncalls, receipts>>

\* The transactions and the signers callers pass to executeAtomicGroup
TxnLists ==
    { <<>>,
      << makePaymentTxn("B", "S", 2000) >>,
      << makePaymentTxn("B", "S", 2000), makeAssetTransferTxn("S", "B", 42, 1) >> }

SignerLists == { <<>>, <<"B">>, <<"B", "S">>, <<"B", "B">> }

ExecuteAtomicGroup ==
    \E caller \in Accounts, transactions \in TxnLists, signers \in SignerLists :
        ExecuteAtomicGroupCall(caller, transactions, signers)

NextGroup ==
    \/ \E t \in 1..MaxCalls : LedgerCommit(t)
    \/ ExecuteAtomicGroup
    \/ \E c \in BagToSet(calls) :
        \/ GroupSendFails(c)
        \/ GroupSubmit(c)
        \/ SettleTimeout(c)
        \/ SettleConfirmed(c)

SpecGroup == InitSettle /\ [][NextGroup]_vars

----------------------------------------------------------------------------
(* Every request to the ledger client returns *)

\* An await of a suspended call ends: the request it waits for answers or
\* fails.
AwaitReturns ==
    \E c \in BagToSet(calls) :
        \/ ListAssetQueryFails(c)
        \/ ListAssetStore(c)
        \/ BuyRequestFails(c)
        \/ BuyOptInCheck(c)
        \/ BuyOptIn(c)
        \/ BuyBalance(c)
        \/ SettleParamsFail(c)
        \/ SettleSendFails(c)
        \/ SettleSubmit(c)
        \/ SettleTimeout(c)
        \/ SettleConfirmed(c)

\* The registry after one successful listAsset by S at time 0, with a
\* royalty or without
InitLive ==
    /\ \E rcp \in CostRecipients :
          listings = MapSet(<<>>, ListingId(42, 0),
                            NewListing([NoListing EXCEPT
                               !.assetId = 42, !.seller = "S", !.price = 2000,
                               !.royaltyRecipient = rcp,
                               !.royaltyPercentage = Some(50)], 0))
    /\ clock = 0
    /\ balances = [a \in ValidAddrs |-> IF a = "S" THEN 4500
                                         ELSE IF a = "B" THEN 20000 ELSE 0]
    /\ holdings = [a \in ValidAddrs |->
                     IF a = "S" THEN [x \in Assets |-> Some(2)] ELSE NoHoldings]
    /\ groups = <<>>
    /\ calls = EmptyBag
    /\ ncalls = 0
    /\ last = IdleCall
    /\ receipts = {}

SpecLive == InitLive /\ [][NextCost]_vars /\ WF_vars(AwaitReturns)

----------------------------------------------------------------------------
(* Properties *)

\* A suspended call returns in this step.
Returns == BagCardinality(calls') < BagCardinality(calls)

\* A call is made in this step and returns before its first await.
ReturnsAtOnce(op) ==
    /\ ncalls' = ncalls + 1
    /\ calls' = calls
    /\ last'.op = op

Stored(id) == id \in DOMAIN listings

\* C1: for every listing id, at most one buyAsset call on that id reports
\* success, whatever the interleaving of the buyAsset calls.
C1_AtMostOneSuccess ==
    \A id \in Ids : Cardinality({r \in receipts : r[1] = id}) <= 1

\* C2: the status stored under a listing id changes only from active to
\* sold or from active to cancelled; a sold or cancelled listing never
\* changes status again.
C2_StatusMonotonic ==
    [][\A id \in DOMAIN listings :
          /\ id \in DOMAIN listings'
          /\ listings[id].status # "active" =>
                listings'[id].status = listings[id].status]_vars

\* C3: a status becomes sold only in the step in which a buyAsset call on
\* that listing, whose settlement was submitted by that call and is
\* committed on the ledger, returns the settlement's transaction id; a
\* buyAsset call that fails, at whatever step, leaves the registry as it is.
C3_SoldOnlyAfterSettlement ==
    [][/\ \A id \in DOMAIN listings' :
            ( /\ listings'[id].status = "sold"
              /\ (Stored(id) => listings[id].status # "sold") ) =>
            \E c \in BagToSet(calls) :
               /\ At(c, "buyAsset", "waitForConfirmation") /\ c.id = id
               /\ groups[c.txId].id = id
               /\ groups[c.txId].status = "committed"
               /\ calls' = calls (-) SetToBag({c})
               /\ last' = Returned(c, Ok(<<c.txId>>))
       /\ (Returns /\ last'.op = "buyAsset" /\ last'.res.kind = "err") =>
             listings' = listings]_vars

C3_Witness ==
    /\ last.op = "buyAsset" /\ last.res = Ok(<<last.txId>>)
    /\ Stored(last.id) /\ listings[last.id].status = "sold"
    /\ groups[last.txId].status = "committed"

\* C4: every settlement of atomicSwap or marketplacePurchase reaches the
\* ledger as one single grouped submission: every submission the ledger
\* holds carries all the legs of its settlement, in one group, so that
\* whenever a leg has taken effect all legs of the settlement have.
C4_AllOrNothing ==
    \A t \in 1..Len(groups) :
        /\ Len(groups[t].stxns) = groups[t].of
        /\ groups[t].of >= 2
        /\ \A i \in 1..Len(groups[t].stxns) :
              groups[t].stxns[i].group = computeGroupID(Ungrouped(groups[t].stxns))

C4_Witness ==
    \E t \in 1..Len(groups), u \in 1..Len(groups) :
        /\ groups[t].status = "committed" /\ Len(groups[t].stxns) = 3
        /\ groups[u].status = "committed" /\ Len(groups[u].stxns) = 2

\* C5 as stated: once a listing is sold or cancelled, every buyAsset or
\* cancelListing call on its id, by any caller, fails with 'not active' and
\* leaves the listing unchanged.
C5_AlwaysNotActive ==
    [][\A op \in {"buyAsset", "cancelListing"} :
          ( /\ ReturnsAtOnce(op)
            /\ Stored(last'.id) /\ listings[last'.id].status # "active" ) =>
          ( /\ last'.res = Err(<<"Listing is not active">>)
            /\ listings' = listings )]_vars

\* C5 as amended: while the status stored under an id is sold or cancelled,
\* every buyAsset call on it fails with 'not active', and every
\* cancelListing call on it fails with 'not active' when made by the
\* listing's seller and with 'only seller can cancel' otherwise; the
\* registry is unchanged.
C5_FailsUnchanged ==
    [][\A op \in {"buyAsset", "cancelListing"} :
          ( /\ ReturnsAtOnce(op)
            /\ Stored(last'.id) /\ listings[last'.id].status # "active" ) =>
          ( /\ last'.res =
                 IF op = "cancelListing" /\ last'.caller # listings[last'.id].seller
                 THEN Err(<<"Only seller can cancel listing">>)
                 ELSE Err(<<"Listing is not active">>)
            /\ listings' = listings )]_vars

C5_Witness ==
    /\ last.op = "cancelListing"
    /\ Stored(last.id) /\ listings[last.id].status = "sold"
    /\ last.caller = listings[last.id].seller
    /\ last.res = Err(<<"Listing is not active">>)

\* C6: every successful listAsset call returns an id that was not a key of
\* the registry and increases the number of stored listings by one.
C6_FreshId ==
    [][(Returns /\ last'.op = "listAsset" /\ last'.res.kind = "ok") =>
          ( /\ ~Stored(last'.res.val)
            /\ Cardinality(DOMAIN listings') = Cardinality(DOMAIN listings) + 1 )]_vars

\* C7: listAsset with price <= 0 fails with 'price must be positive' and
\* stores nothing, and every stored listing has price > 0.
C7_PricePositive ==
    /\ [](\A id \in DOMAIN listings : listings[id].price > 0)
    /\ [][\A seller \in Accounts, assetId \in Assets,
             price \in Prices, r \in Royalties :
             (price <= 0 /\ ListAssetCall(seller, assetId, price, r[1], r[2])) =>
             ( /\ last' = Returned(NewCall("listAsset", seller),
                                   Err(<<"Price must be positive">>))
               /\ calls' = calls
               /\ listings' = listings )]_vars

C7_Witness ==
    /\ last.op = "listAsset" /\ last.res = Err(<<"Price must be positive">>)
    /\ \E id \in DOMAIN listings : listings[id].price > 0

\* C8: listAsset stores a listing only if the ownership query of that call
\* reports a holding of at least 1 unit of the asset for the seller; when it
\* reports no holding or an amount of 0, the call fails with 'seller does
\* not own asset' and the registry is unchanged.
C8_OwnershipChecked ==
    [][\A c \in BagToSet(calls) :
          ( /\ At(c, "listAsset", "getAssetHolding")
            /\ calls' = calls (-) SetToBag({c}) ) =>
          LET l == c.listing
              reported == holdings[l.seller][l.assetId]
              owns == reported # Undefined /\ reported[1] >= 1
          IN  /\ listings' # listings => owns /\ last'.res.kind = "ok"
              /\ ( /\ ~owns
                   /\ last'.res # Err(Wrap("Failed to get asset holdings", NetworkError)) ) =>
                     ( /\ last'.res = Err(<<"Seller does not own asset">>)
                       /\ listings' = listings )]_vars

C8_Witness ==
    /\ last.op = "listAsset" /\ last.res = Err(<<"Seller does not own asset">>)
    /\ holdings[last.caller][42] = Some(0)

\* C9: listAsset with a royaltyPercentage below 0 or above 100 fails with an
\* invalid-argument error (price or percentage) and stores no listing, and
\* every stored listing's royaltyPercentage is absent or within 0..100.
C9_PercentageInRange ==
    /\ [](\A id \in DOMAIN listings :
            \/ listings[id].royaltyPercentage = Undefined
            \/ listings[id].royaltyPercentage[1] \in 0..100)
    /\ [][\A seller \in Accounts, assetId \in Assets,
             price \in Prices, r \in Royalties :
             ( /\ r[2] # Undefined /\ r[2][1] \notin 0..100
               /\ ListAssetCall(seller, assetId, price, r[1], r[2]) ) =>
             ( /\ last' = Returned(NewCall("listAsset", seller),
                                   Err(IF price <= 0 THEN <<"Price must be positive">>
                                       ELSE <<"Royalty percentage must be 0-100">>))
               /\ calls' = calls
               /\ listings' = listings )]_vars

C9_Witness ==
    /\ last.op = "listAsset"
    /\ last.res = Err(<<"Royalty percentage must be 0-100">>)
    /\ \E id \in DOMAIN listings : listings[id].royaltyPercentage = Some(50)

\* C10: every stored listing has both royaltyRecipient and
\* royaltyPercentage, or neither.
C10_BothOrNeither ==
    \A id \in DOMAIN listings :
        (listings[id].royaltyRecipient = Undefined)
           <=> (listings[id].royaltyPercentage = Undefined)

\* The call c of buyAsset, waiting for the balance query, goes on to the
\* settlement in this step.
Proceeds(c) ==
    /\ At(c, "buyAsset", "hasSufficientBalance")
    /\ Suspend(c, [c EXCEPT !.pc = "getTransactionParams",
                            !.extCalls = @ + 1, !.args = PurchaseArgs(c)])

\* C11: buyAsset proceeds to the settlement only if the buyer's queried
\* balance is at least price + royalty + the minimum fee times the number
\* of legs of the group that will be submitted (2 without a royalty leg, 3
\* with one).
C11_FundsForEveryLeg ==
    [][\A c \in BagToSet(calls) :
          Proceeds(c) =>
          balances[c.args.buyer] >=
             c.listing.price + RoyaltyAmount(c.listing)
             + Len(MpTransactions(PurchaseArgs(c))) * ALGORAND_MIN_TX_FEE]_vars

\* r is the integer floor of price * pct / 100
IsFloorOfShare(r, price, pct) ==
    r * 100 <= price * pct /\ price * pct < (r + 1) * 100

\* C12: the royalty amount buyAsset passes to the settlement is
\* floor(price * royaltyPercentage / 100) when the listing carries both
\* royalty fields and 0 otherwise.
C12_RoyaltyIsFloor ==
    \A c \in BagToSet(calls) :
        (c.op = "buyAsset" /\ c.pc \in {"getTransactionParams", "waitForConfirmation"}) =>
        /\ c.args.royaltyAmount # Undefined
        /\ IF c.listing.royaltyRecipient # Undefined
              /\ c.listing.royaltyPercentage # Undefined
           THEN IsFloorOfShare(c.args.royaltyAmount[1], c.listing.price,
                               c.listing.royaltyPercentage[1])
           ELSE c.args.royaltyAmount[1] = 0

C12_Witness ==
    \E c \in BagToSet(calls) :
        /\ c.op = "buyAsset" /\ c.pc = "waitForConfirmation"
        /\ c.listing.price = 199 /\ c.listing.royaltyPercentage = Some(33)
        /\ c.args.royaltyAmount = Some(65)
        /\ groups[c.txId].status = "committed"
        /\ groups[c.txId].stxns[3].amount = 65

\* The number of legs of the group buyAsset has submitted for a listing
LegCount(listing) ==
    Len(MpTransactions(PurchaseArgs([IdleCall EXCEPT !.listing = listing])))

\* C13: for every stored listing, calculateTotalCost(listingId) is
\* price + royalty + fee * legCount, where legCount is the number of legs
\* of the listing's settlement (2 without a royalty leg, 3 with one).
C13_CostCountsLegs ==
    [][( /\ ReturnsAtOnce("calculateTotalCost")
         /\ Stored(last'.id) ) =>
       LET l == listings[last'.id]
       IN  /\ last'.res.kind = "ok"
           /\ \E r \in {RoyaltyAmount(l)} :
                 /\ IF l.royaltyRecipient # Undefined /\ l.royaltyPercentage # Undefined
                    THEN IsFloorOfShare(r, l.price, l.royaltyPercentage[1])
                    ELSE r = 0
                 /\ last'.res.val =
                       << l.price + r + ALGORAND_MIN_TX_FEE * LegCount(l) >>]_vars

\* The call c of marketplacePurchase has its group taken by the ledger in
\* this step.
SubmitsGroup(c) ==
    /\ Settling(c) /\ c.op # "atomicSwap" /\ c.pc = "getTransactionParams"
    /\ Len(groups') = Len(groups) + 1
    /\ Suspend(c, [c EXCEPT !.pc = "waitForConfirmation",
                            !.txId = Len(groups'), !.extCalls = @ + 2])

\* C14: every group submitted by marketplacePurchase consists, in this
\* order, of a payment of price from buyer to seller, a transfer of 1 unit
\* of assetId from seller to buyer, and a payment of royaltyAmount from
\* buyer to royaltyRecipient; the third leg is there if and only if a
\* royaltyRecipient and a royaltyAmount > 0 were both supplied.
C14_LegsInOrder ==
    [][\A c \in BagToSet(calls) :
          SubmitsGroup(c) =>
          LET g == groups'[Len(groups')].stxns
              a == c.args
              royalty == /\ a.royaltyRecipient # Undefined
                         /\ a.royaltyAmount # Undefined
                         /\ a.royaltyAmount[1] > 0
          IN  /\ Len(g) = IF royalty THEN 3 ELSE 2
              /\ g[1].type = PAY /\ g[1].from = a.buyer /\ g[1].to = a.seller
              /\ g[1].amount = a.price
              /\ g[2].type = AXFER /\ g[2].from = a.seller /\ g[2].to = a.buyer
              /\ g[2].asset = a.assetId /\ g[2].amount = 1
              /\ royalty =>
                    /\ g[3].type = PAY /\ g[3].from = a.buyer
                    /\ g[3].to = a.royaltyRecipient[1]
                    /\ g[3].amount = a.royaltyAmount[1]]_vars

C14_Witness ==
    /\ last.op = "marketplacePurchase" /\ last.res.kind = "ok"
    /\ \E t \in 1..Len(groups), u \in 1..Len(groups) :
          /\ Len(groups[t].stxns) = 3 /\ groups[t].stxns[3].to = "R"
          /\ groups[t].stxns[3].amount = 1000
          /\ Len(groups[u].stxns) = 2

\* The legs a settlement builds, before they are grouped and signed
BuiltLegs(c) ==
    IF c.op = "atomicSwap" THEN SwapTransactions(c.args) ELSE MpTransactions(c.args)

\* The call c hands its signed legs to sendRawTransaction and the ledger
\* takes them in this step.
HandsOver(c) ==
    /\ Settling(c) /\ c.pc = "getTransactionParams"
    /\ Len(groups') = Len(groups) + 1
    /\ Suspend(c, [c EXCEPT !.pc = "waitForConfirmation",
                            !.txId = Len(groups'), !.extCalls = @ + 2])

\* C15: in marketplacePurchase and atomicSwap every signed leg carries the
\* id of the group of all built legs (the id is assigned before the legs are
\* signed), is signed once, with the key of its sending party (the buyer
\* for the payment and royalty legs, the seller for the asset transfer),
\* and the signed legs are handed over together, in the positions of the
\* built legs.
C15_GroupedThenSigned ==
    /\ [](\A c \in BagToSet(calls) :
            ( /\ c.op \in {"buyAsset", "marketplacePurchase", "atomicSwap"}
              /\ c.pc = "getTransactionParams" /\ BuildError(c) = <<>> ) =>
            LET subs == Submissions(c)
                built == BuiltLegs(c)
            IN  /\ Len(subs) = 1
                /\ Len(subs[1]) = Len(built)
                /\ \A i \in 1..Len(built) :
                      LET leg == subs[1][i]
                      IN  /\ leg.group # Undefined
                          /\ leg.group = computeGroupID(built)
                          /\ leg.signer = built[i].from
                          /\ leg.signer = IF built[i].type = AXFER
                                          THEN c.args.seller ELSE c.args.buyer
                          /\ [leg EXCEPT !.group = Undefined, !.signer = ""] = built[i])
    /\ [][\A c \in BagToSet(calls) :
             HandsOver(c) => groups'[Len(groups')].stxns = Submissions(c)[1]]_vars

C15_Witness ==
    /\ \E c \in BagToSet(calls) :
          /\ c.op = "atomicSwap" /\ c.pc = "waitForConfirmation"
          /\ groups[c.txId].stxns[2].signer = "S"
    /\ \E t \in 1..Len(groups) :
          /\ Len(groups[t].stxns) = 3
          /\ groups[t].stxns[3].signer = "B"
          /\ groups[t].stxns[2].signer = "S"

\* C16: executeAtomicGroup fails, with nothing signed or submitted, when
\* transactions is empty or the number of signers is not the number of
\* transactions; otherwise transaction i is signed by signer i for every
\* position i, and all of them are submitted as one group.
C16_OneSignerPerLeg ==
    /\ [][\A caller \in Accounts, transactions \in TxnLists, signers \in SignerLists :
             ExecuteAtomicGroupCall(caller, transactions, signers) =>
             IF Len(transactions) = 0 \/ Len(transactions) # Len(signers)
             THEN /\ last'.op = "executeAtomicGroup" /\ last'.res.kind = "err"
                  /\ last'.extCalls = 0
                  /\ calls' = calls /\ groups' = groups
             ELSE \E d \in BagToSet(calls') :
                     /\ d.op = "executeAtomicGroup" /\ d.pc = "sendRawTransaction"
                     /\ calls' = calls (+) SetToBag({d})
                     /\ Len(d.args.stxns) = Len(transactions)
                     /\ \A i \in 1..Len(transactions) :
                           /\ d.args.stxns[i].signer = signers[i]
                           /\ d.args.stxns[i].group = computeGroupID(transactions)
                           /\ Ungrouped(<<d.args.stxns[i]>>) = <<transactions[i]>>]_vars
    /\ [][\A c \in BagToSet(calls) :
             ( /\ At(c, "executeAtomicGroup", "sendRawTransaction")
               /\ Suspend(c, [c EXCEPT !.pc = "waitForConfirmation",
                                       !.txId = Len(groups) + 1,
                                       !.extCalls = @ + 1]) ) =>
             /\ Len(groups') = Len(groups) + 1
             /\ groups'[Len(groups')].stxns = c.args.stxns
             /\ \A t \in 1..Len(groups) : groups'[t] = groups[t]]_vars

C16_Witness ==
    /\ last.op = "executeAtomicGroup"
    /\ last.res = Err(Wrap("Atomic group execution failed",
                           <<"Number of transactions must match number of signers">>))
    /\ \E t \in 1..Len(groups) :
          /\ groups[t].status = "committed"
          /\ Len(groups[t].stxns) = 2
          /\ groups[t].stxns[2].signer = "S"

\* The messages of the errors thrown for invalid inputs
ValidationMessages ==
    { "Price must be positive", "Royalty percentage must be 0-100",
      "Invalid royalty recipient", "Seller account does not match listing",
      "Listing not found", "Listing is not active",
      "Payment amount must be positive", "Asset amount must be positive" }

\* C17: a call of listAsset, buyAsset, atomicSwap or marketplacePurchase
\* that fails because of an input-validation error has made no call to the
\* ledger client before failing.
C17_ValidationBeforeLedger ==
    ( /\ last.op \in {"listAsset", "buyAsset", "atomicSwap", "marketplacePurchase"}
      /\ last.res.kind = "err"
      /\ last.res.err[Len(last.res.err)] \in ValidationMessages ) =>
    last.extCalls = 0

\* C18: cancelListing on a stored listing by an account that is not the
\* listing's seller fails with 'only seller can cancel' and changes
\* nothing; a status becomes cancelled only by a cancelListing call of the
\* listing's seller on an active listing.
C18_OnlySellerCancels ==
    /\ [][\A seller \in Accounts, id \in Ids :
             CancelListing(seller, id) =>
             /\ (Stored(id) /\ listings[id].seller # seller) =>
                   /\ last'.res = Err(<<"Only seller can cancel listing">>)
                   /\ listings' = listings
             /\ listings' # listings =>
                   /\ Stored(id) /\ listings[id].seller = seller
                   /\ listings[id].status = "active"
                   /\ listings' = [listings EXCEPT ![id].status = "cancelled"]]_vars
    /\ [][\A id \in DOMAIN listings' :
             ( /\ listings'[id].status = "cancelled"
               /\ (Stored(id) => listings[id].status # "cancelled") ) =>
             /\ Stored(id) /\ listings[id].status = "active"
             /\ ReturnsAtOnce("cancelListing")
             /\ last'.id = id /\ last'.caller = listings[id].seller
             /\ last'.res.kind = "ok"]_vars

C18_Witness ==
    /\ last.op = "cancelListing"
    /\ last.res = Err(<<"Only seller can cancel listing">>)
    /\ Stored(last.id) /\ listings[last.id].status = "active"
    /\ last.caller # listings[last.id].seller

\* C19: buyAsset and cancelListing called with an id that is not a key of
\* the registry fail with 'listing not found', make no call to the ledger
\* client and leave the registry unchanged.
C19_UnknownIdNotFound ==
    /\ [][\A buyer \in Accounts, id \in Ids, sellerAccount \in Accounts :
             (~Stored(id) /\ BuyAssetCall(buyer, id, sellerAccount)) =>
             /\ last' = Returned([NewCall("buyAsset", buyer) EXCEPT !.id = id],
                                 Err(<<"Listing not found">>))
             /\ last'.extCalls = 0
             /\ calls' = calls /\ groups' = groups
             /\ listings' = listings]_vars
    /\ [][\A seller \in Accounts, id \in Ids :
             (~Stored(id) /\ CancelListing(seller, id)) =>
             /\ last' = Returned([NewCall("cancelListing", seller) EXCEPT !.id = id],
                                 Err(<<"Listing not found">>))
             /\ last'.extCalls = 0
             /\ calls' = calls /\ groups' = groups
             /\ listings' = listings]_vars

C19_Witness ==
    /\ last.op = "buyAsset" /\ last.res = Err(<<"Listing not found">>)
    /\ ~Stored(last.id)
    /\ \E id \in DOMAIN listings : listings[id].status = "active"

\* The position of an await in its method
Rank(pc) ==
    CASE pc = "accountInformation" -> 1
      [] pc = "optIn" -> 2
      [] pc = "hasSufficientBalance" -> 3
      [] pc = "getTransactionParams" -> 4
      [] pc = "waitForConfirmation" -> 5
      [] OTHER -> 0

\* The requests a call makes at most when it makes each of them once:
\* buyAsset asks for the account, opts in, asks for the balance, and then,
\* as marketplacePurchase does, asks for the parameters, sends and waits.
MaxRequests(op) == IF op = "buyAsset" THEN 6 ELSE 3

\* C20: a buyAsset or marketplacePurchase call goes through its requests
\* once and in order: it never goes back to a request it has made, it hands
\* at most one group to the ledger (when it leaves the request for the
\* parameters for the wait), a failed request or a wait that gives up ends
\* the call, and every call that was started returns.
C20_NoRetryAndReturns ==
    /\ [](\A c \in BagToSet(calls) :
            c.op \in {"buyAsset", "marketplacePurchase"} =>
               c.extCalls <= MaxRequests(c.op))
    /\ [](last.op \in {"buyAsset", "marketplacePurchase"} =>
               last.extCalls <= MaxRequests(last.op))
    /\ [][\A c \in BagToSet(calls) :
             ( /\ c.op \in {"buyAsset", "marketplacePurchase"}
               /\ CopiesIn(c, calls') < CopiesIn(c, calls) ) =>
             \/ /\ calls' = calls (-) SetToBag({c})
                /\ last'.op = c.op /\ last'.res.kind \in {"ok", "err"}
                /\ Len(groups') = Len(groups)
             \/ \E d \in BagToSet(calls') :
                   /\ calls' = (calls (-) SetToBag({c})) (+) SetToBag({d})
                   /\ d.op = c.op /\ Rank(d.pc) > Rank(c.pc)
                   /\ IF Len(groups') = Len(groups) THEN groups' = groups
                      ELSE /\ c.pc = "getTransactionParams"
                           /\ d.pc = "waitForConfirmation"
                           /\ Len(groups') = Len(groups) + 1]_vars
    /\ [][Len(groups') > Len(groups) => calls' # calls]_vars
    /\ (calls # EmptyBag) ~> (calls = EmptyBag)

C20_Witness ==
    /\ last.op = "buyAsset"
    /\ last.res = Err(Wrap("Marketplace purchase failed", <<"Transaction not confirmed">>))
    /\ last.extCalls = 6
    /\ Len(groups) = 1 /\ groups[last.txId].status = "pending"
    /\ calls = EmptyBag

\* C21: the set of listing ids never shrinks, and of a stored listing only
\* the status is ever modified: id, assetId, seller, price,
\* royaltyRecipient, royaltyPercentage and createdAt stay as they were
\* when the listing was created.
C21_FieldsFrozen ==
    [][\A id \in DOMAIN listings :
          /\ id \in DOMAIN listings'
          /\ [listings'[id] EXCEPT !.status = listings[id].status] = listings[id]]_vars

\* C22: the queries leave the registry unchanged and have no failure mode:
\* calculateTotalCost called with an id that matches no listing returns a
\* result instead of failing.
C22_QueriesNeverFail ==
    [][ReturnsAtOnce("calculateTotalCost") =>
          /\ last'.res.kind = "ok"
          /\ listings' = listings]_vars

\* The account a holds an entry for the asset x.
OptedIn(hold, a, x) == hold[a][x] # Undefined

\* C23: buyAsset asks for the opt-in only when the account query shows the
\* buyer has no entry for the listing's asset; the opt-in comes after the
\* checks of the listing and before the balance query and the settlement;
\* when it fails the call returns the failure with nothing submitted and
\* the registry as it was; an opt-in that was made stays when the call
\* fails later.
C23_OptInOnlyWhenNeeded ==
    /\ [][\A c \in BagToSet(calls) :
             ( /\ At(c, "buyAsset", "accountInformation")
               /\ CopiesIn(c, calls') < CopiesIn(c, calls)
               /\ calls' # calls (-) SetToBag({c}) ) =>
             \E d \in BagToSet(calls') :
                /\ calls' = (calls (-) SetToBag({c})) (+) SetToBag({d})
                /\ d.pc = IF OptedIn(holdings, c.args.buyer, c.listing.assetId)
                          THEN "hasSufficientBalance" ELSE "optIn"
                /\ holdings' = holdings /\ groups' = groups]_vars
    /\ [](\A c \in BagToSet(calls) :
             (c.op = "buyAsset" /\ c.pc = "optIn") =>
                /\ c.listing.status = "active" /\ c.listing.seller = c.args.seller
                /\ c.txId = 0 /\ c.args.royaltyAmount = Undefined)
    /\ [][\A c \in BagToSet(calls) :
             ( /\ At(c, "buyAsset", "optIn")
               /\ CopiesIn(c, calls') < CopiesIn(c, calls) ) =>
             /\ listings' = listings /\ groups' = groups
             /\ IF calls' = calls (-) SetToBag({c})
                THEN /\ last'.res.kind = "err"
                     /\ last'.res.err[1] = "Opt-in failed"
                     /\ holdings' = holdings
                ELSE /\ OptedIn(holdings', c.args.buyer, c.listing.assetId)
                     /\ calls' = (calls (-) SetToBag({c})) (+)
                           SetToBag({[c EXCEPT !.pc = "hasSufficientBalance",
                                               !.extCalls = @ + 1]})]_vars
    /\ [][\A a \in ValidAddrs, x \in Assets :
             OptedIn(holdings, a, x) => OptedIn(holdings', a, x)]_vars
    /\ [][(Returns /\ last'.op = "buyAsset" /\ last'.res.kind = "err") =>
             holdings' = holdings]_vars

C23_Witness ==
    /\ last.op = "buyAsset" /\ last.caller = "B"
    /\ last.res = Err(Wrap("Marketplace purchase failed", <<"Transaction not confirmed">>))
    /\ last.extCalls = 6
    /\ holdings["B"][42] = Some(0)
    /\ listings[last.id].status = "active"

\* C24: atomicSwap and marketplacePurchase submit nothing when the payment
\* amount or price is <= 0, when (for atomicSwap) the asset amount is <= 0,
\* or when a supplied royalty recipient is malformed: no call with such
\* arguments gets as far as waiting for the confirmation of a submission.
C24_InvalidNeverSubmitted ==
    \A c \in BagToSet(calls) :
        ( /\ c.op \in {"atomicSwap", "marketplacePurchase"}
          /\ c.pc = "waitForConfirmation" ) =>
        /\ c.args.price > 0
        /\ c.op = "atomicSwap" => c.args.assetAmount > 0
        /\ c.args.royaltyRecipient # Undefined =>
              isValidAddress(c.args.royaltyRecipient[1])

\* C25: when no buyAsset call on a listing is in flight and the ledger has
\* committed a settlement group submitted for that listing, the listing's
\* status is sold.
C25_CommittedMeansSold ==
    \A t \in 1..Len(groups) :
        ( /\ groups[t].status = "committed"
          /\ groups[t].id # <<>>
          /\ \A c \in BagToSet(calls) :
                ~(c.op = "buyAsset" /\ c.id = groups[t].id) ) =>
        /\ Stored(groups[t].id)
        /\ listings[groups[t].id].status = "sold"

====
